---- MODULE Spec2Model ----
(***************************************************************************)
(* PlanLingo daily planner: the schedule builder (scheduleAI.ts), the      *)
(* timeline layout engine and interactive editor                           *)
(* (EnhancedScheduleTimeline.tsx) and the planner that owns the schedule   *)
(* (ModernPlannerInterface.tsx).                                           *)
(*                                                                         *)
(* A time string "HH:MM" is modelled by the two numbers it prints, the     *)
(* record [h |-> HH, m |-> MM]: formatting computes the two fields as the  *)
(* code does and parsing reads them back as split(':').map(Number) does.   *)
(* A block id, the decimal string String(n), is modelled by n.             *)
(***************************************************************************)
EXTENDS Integers, Sequences, FiniteSets, TLC

VARIABLES
    candidates,     \* repair runs: the block list handed to validateAndFixSchedule
    repaired,       \* repair runs: the schedules returned so far (first run, second run)
    layoutBlocks,   \* layout runs: the block list handed to layoutEvents
    layouted,       \* layout runs: [done, events], the layout events returned
    scoreBlocks,    \* builder runs: the block list handed to the builder's functions
    scored,         \* builder runs: [done, by, schedule], the schedule returned
    configured,     \* groq-config: whether VITE_GROQ_API_KEY is set
    naturalLanguageInput,   \* planner: the text typed, NoText when empty
    isProcessing,   \* planner state isProcessing
    error,          \* planner state error: <<>> (null) or <<message>>
    currentView,    \* planner state currentView
    scheduleData,   \* planner state scheduleData: <<>> (null) or <<DailySchedule>>
    hasUnsavedChanges,      \* planner state hasUnsavedChanges
    request,        \* the processNaturalLanguageInput call in flight: [pc, text, result, cleared]
    parsePromise,   \* the promise of its parseScheduleFromText call: [status, service, value]
    editingBlock,   \* timeline state editingBlock: 0 (null) or a block id
    gesture,        \* the mouse listeners on document: <<>> or <<[kind, blockId, ...]>>
    edits,          \* the number of editor events so far
    minuteInput,    \* time runs: the minute count handed to the time utilities
    converted,      \* time runs: [done, by, ...], what the utility returned
    component,      \* edit forms: the component whose form is used
    task,           \* edit forms: the block (task) as its owner stores it
    editDraft,      \* edit forms: the draft being edited, <<>> (null) or <<draft>>
    saves,          \* edit forms: the number of clicks on Save so far
    exportInput,    \* export runs: [date, zone, schedule], what the export reads
    icsFile,        \* export runs: [done, by, lines], the lines of the file written
    optimizerBlocks,    \* optimizer: the blocks prop of the mounted ScheduleOptimizer
    debounceTimers, \* optimizer: the pending timers of its effect, each with the blocks
                    \* of the render that set it
    isAnalyzing,    \* optimizer state isAnalyzing
    optimizationData,   \* optimizer state optimizationData: <<>> (null) or <<result>>
    optimizeCalls,  \* optimizer: the optimizeSchedule calls awaited, each with its blocks
    timerRuns,      \* optimizer: the runs its timers started since the blocks last changed
    applying,       \* optimizer: <<>> or <<blocks>>, the list applySelectedOptimizations
                    \* hands to the planner when its 800 ms delay is over
    changes         \* optimizer: the number of changes of the blocks prop so far

repairVars == <<candidates, repaired>>

layoutVars == <<layoutBlocks, layouted>>

scoreVars == <<scoreBlocks, scored>>

plannerVars == <<configured, naturalLanguageInput, isProcessing, error, currentView,
                 scheduleData, hasUnsavedChanges, request, parsePromise>>

editorVars == <<editingBlock, gesture, edits>>

timeVars == <<minuteInput, converted>>

\* the variables of the runs of single functions other than the three above
formVars == <<component, task, editDraft, saves>>

exportVars == <<exportInput, icsFile>>

optimizerVars == <<optimizerBlocks, debounceTimers, isAnalyzing, optimizationData,
                   optimizeCalls, timerRuns, applying, changes>>

utilVars == <<timeVars, formVars, exportVars, optimizerVars>>

mainVars == <<repairVars, layoutVars, scoreVars, plannerVars, editorVars>>

vars == <<repairVars, layoutVars, scoreVars, plannerVars, editorVars, utilVars>>

\* the variables of the runs that a specification does not use stay as they are
RepairIdle == candidates = <<>> /\ repaired = <<>>

LayoutIdle == layoutBlocks = <<>> /\ layouted = [done |-> FALSE, events |-> <<>>]

ScoreIdle == scoreBlocks = <<>> /\ scored = [done |-> FALSE]

TimeIdle == minuteInput = 0 /\ converted = [done |-> FALSE]

FormIdle == component = "none" /\ task = <<>> /\ editDraft = <<>> /\ saves = 0

ExportIdle == exportInput = <<>> /\ icsFile = [done |-> FALSE]

OptimizerIdle ==
    /\ optimizerBlocks = <<>>
    /\ debounceTimers = <<>>
    /\ isAnalyzing = FALSE
    /\ optimizationData = <<>>
    /\ optimizeCalls = <<>>
    /\ timerRuns = 0
    /\ applying = <<>>
    /\ changes = 0

UtilIdle == TimeIdle /\ FormIdle /\ ExportIdle /\ OptimizerIdle

\* A text is modelled by what the regular expressions of the intelligent
\* fallback capture in it, and by whether it is blank
Text(work, exercise, sleep) ==
    [work |-> work, exercise |-> exercise, sleep |-> sleep, blank |-> FALSE]

NoText == [work |-> <<>>, exercise |-> <<>>, sleep |-> <<>>, blank |-> TRUE]

\* cleared records that the user cleared the schedule after the request was
\* issued and before its parse call resolved; the code keeps no such record
IdleRequest == [pc |-> "idle", text |-> NoText, result |-> <<>>, cleared |-> FALSE]

NoPromise == [status |-> "none", service |-> "none", value |-> <<>>]

PlannerIdle ==
    /\ configured = FALSE
    /\ naturalLanguageInput = NoText
    /\ isProcessing = FALSE
    /\ error = <<>>
    /\ currentView = "input"
    /\ scheduleData = <<>>
    /\ hasUnsavedChanges = FALSE
    /\ request = IdleRequest
    /\ parsePromise = NoPromise
    /\ editingBlock = 0
    /\ gesture = <<>>
    /\ edits = 0

----------------------------------------------------------------------------
(* JavaScript arithmetic *)

\* a % b of JavaScript for b > 0: the result takes the sign of a
JSRem(a, b) == IF a >= 0 THEN a % b ELSE 0 - ((0 - a) % b)

Max(a, b) == IF a >= b THEN a ELSE b

Min(a, b) == IF a <= b THEN a ELSE b

\* the string `${String(h).padStart(2,'0')}:${String(m).padStart(2,'0')}`
HHMM(h, m) == [h |-> h, m |-> m]

\* a time string is well formed when it reads HH:MM with 00 <= HH <= 23, 00 <= MM <= 59
WellFormedTime(t) == t.h \in 0..23 /\ t.m \in 0..59

----------------------------------------------------------------------------
(* Time utilities of scheduleAI *)

timeToMinutes(time) == time.h * 60 + time.m

minutesToTime(minutes) == HHMM(JSRem(minutes \div 60, 24), JSRem(minutes, 60))

----------------------------------------------------------------------------
(* Block repairer: scheduleAI.validateAndFixSchedule *)

\* insert block b behind every block of the sorted list s whose start is <= b's
RECURSIVE InsertByStart(_, _)
InsertByStart(s, b) ==
    IF s = <<>> THEN <<b>>
    ELSE IF timeToMinutes(s[Len(s)].startTime) - timeToMinutes(b.startTime) <= 0
         THEN Append(s, b)
         ELSE Append(InsertByStart(SubSeq(s, 1, Len(s) - 1), b), s[Len(s)])

\* [...schedule.blocks].sort(by start minutes): Array.prototype.sort is stable
RECURSIVE sortedBlocks(_)
sortedBlocks(blocks) ==
    IF blocks = <<>> THEN <<>>
    ELSE InsertByStart(sortedBlocks(SubSeq(blocks, 1, Len(blocks) - 1)), blocks[Len(blocks)])

\* a mutation of adjustedStartTime: the overlap test is dropped
adjustedStartTimeNoFix(block, lastEndTime) == block.startTime

adjustedStartTime(block, lastEndTime) ==
    IF timeToMinutes(block.startTime) < timeToMinutes(lastEndTime)
    THEN lastEndTime
    ELSE block.startTime

fixedBlockKeepDuration(block, index, lastEndTime) ==
    LET start   == adjustedStartTime(block, lastEndTime)
        endTime == minutesToTime(timeToMinutes(start) + block.duration)
    IN  [block EXCEPT !.id = index + 1, !.startTime = start, !.endTime = endTime]

\* one turn of sortedBlocks.forEach((block, index) => ...)
fixedBlock(block, index, lastEndTime) ==
    LET start    == adjustedStartTime(block, lastEndTime)
        duration == Max(block.duration, 15)
        endTime  == minutesToTime(timeToMinutes(start) + duration)
    IN  [block EXCEPT !.id = index + 1, !.startTime = start,
                      !.endTime = endTime, !.duration = duration]

RECURSIVE fixedBlocks(_, _, _, _)
fixedBlocks(sorted, index, fixed, lastEndTime) ==
    IF index >= Len(sorted) THEN fixed
    ELSE LET b == fixedBlock(sorted[index + 1], index, lastEndTime)
         IN  fixedBlocks(sorted, index + 1, Append(fixed, b), b.endTime)

repairBlocks(blocks) == fixedBlocks(sortedBlocks(blocks), 0, <<>>, HHMM(0, 0))

----------------------------------------------------------------------------
(* Balance, suggestions and score of scheduleAI *)

RECURSIVE totalOf(_, _)
\* the sum of block.duration over the blocks whose type is in types
totalOf(blocks, types) ==
    IF blocks = <<>> THEN 0
    ELSE totalOf(Tail(blocks), types)
         + (IF Head(blocks).type \in types THEN Head(blocks).duration ELSE 0)

\* workHours, personalHours and sleepHours are totals / 60: the fields hold the
\* totals in minutes, and a comparison "hours > n" is made as "minutes > 60 * n"
calculateWorkLifeBalance(blocks) ==
    [workHours       |-> totalOf(blocks, {"work"}),
     personalHours   |-> totalOf(blocks, {"personal", "wellness"}),
     sleepHours      |-> totalOf(blocks, {"sleep"}),
     exerciseMinutes |-> totalOf(blocks, {"exercise"})]

ReduceWork == "Consider reducing work hours to improve work-life balance"

AddExercise == "Add at least 30 minutes of daily exercise for better health"

IncreaseSleep == "Increase sleep duration to 7-9 hours for optimal recovery"

AddPersonal == "Schedule more personal time for relaxation and hobbies"

AddBreaks == "Add short breaks during long work sessions to maintain productivity"

WellBalanced == "Your schedule looks well-balanced!"

AddVariety == "Consider adding variety to keep things interesting"

\* a mutation of slice4: the list is cut to 3 suggestions
slice3(s) == IF Len(s) > 3 THEN SubSeq(s, 1, 3) ELSE s

\* suggestions.slice(0, 4)
slice4(s) == IF Len(s) > 4 THEN SubSeq(s, 1, 4) ELSE s

generateSmartSuggestions(blocks) ==
    LET totals == calculateWorkLifeBalance(blocks)
        hasLongWorkSession ==
            \E i \in 1..Len(blocks) : blocks[i].type = "work" /\ blocks[i].duration > 240
        s1 == IF totals.workHours > 9 * 60 THEN <<ReduceWork>> ELSE <<>>
        s2 == IF totals.exerciseMinutes < 30 THEN Append(s1, AddExercise) ELSE s1
        s3 == IF totals.sleepHours < 7 * 60 THEN Append(s2, IncreaseSleep) ELSE s2
        s4 == IF totals.personalHours < 2 * 60 THEN Append(s3, AddPersonal) ELSE s3
        s5 == IF hasLongWorkSession THEN Append(s4, AddBreaks) ELSE s4
        s6 == IF Len(s5) = 0 THEN <<WellBalanced, AddVariety>> ELSE s5
    IN  slice4(s6)

\* a mutation of validateTimeGaps: only gaps of more than 3 hours are unreasonable
validateTimeGapsNoOverlap(blocks) ==
    \A i \in 1..(Len(blocks) - 1) :
        timeToMinutes(blocks[i + 1].startTime) - timeToMinutes(blocks[i].endTime) <= 180

validateTimeGaps(blocks) ==
    \A i \in 1..(Len(blocks) - 1) :
        LET currentEnd == timeToMinutes(blocks[i].endTime)
            nextStart  == timeToMinutes(blocks[i + 1].startTime)
            gap        == nextStart - currentEnd
        IN  ~(gap < 0 \/ gap > 180)

\* the score before Math.max(0, Math.min(100, score))
penalizedScore(blocks) ==
    LET totals      == calculateWorkLifeBalance(blocks)
        hasMeals    == \E i \in 1..Len(blocks) : blocks[i].type = "meal"
        hasBreaks   == \E i \in 1..Len(blocks) : blocks[i].type = "break"
        hasWellness == \E i \in 1..Len(blocks) : blocks[i].type = "wellness"
    IN  100
        - (IF totals.workHours > 9 * 60 THEN 15
           ELSE IF totals.workHours < 6 * 60 THEN 10 ELSE 0)
        - (IF totals.personalHours < 2 * 60 THEN 15 ELSE 0)
        - (IF totals.sleepHours < 7 * 60 \/ totals.sleepHours > 9 * 60 THEN 20 ELSE 0)
        - (IF totals.exerciseMinutes < 30 THEN 20 ELSE 0)
        - (IF ~hasMeals THEN 10 ELSE 0)
        - (IF ~hasBreaks /\ totals.workHours > 6 * 60 THEN 10 ELSE 0)
        - (IF ~hasWellness THEN 5 ELSE 0)
        - (IF ~validateTimeGaps(blocks) THEN 5 ELSE 0)

\* a mutation of calculateOptimizationScore: the penalties are counted as
\* percentages of the three 30/40/30 point sections and the clamp is left out
calculateOptimizationScoreScaled(blocks) == 100 - 2 * (100 - penalizedScore(blocks))

calculateOptimizationScore(blocks) == Max(0, Min(100, penalizedScore(blocks)))

\* the DailySchedule built from a block list by the builder
scheduleOf(blocks) ==
    [blocks            |-> blocks,
     totalHours        |-> 24,
     workLifeBalance   |-> calculateWorkLifeBalance(blocks),
     suggestions       |-> generateSmartSuggestions(blocks),
     optimizationScore |-> calculateOptimizationScore(blocks)]

validateAndFixSchedule(schedule) == scheduleOf(repairBlocks(schedule.blocks))

\* scheduleAI.addMinutesToTime
addMinutesToTime(time, minutes) ==
    LET totalMinutes == time.h * 60 + time.m + minutes
    IN  HHMM(JSRem(totalMinutes \div 60, 24), JSRem(totalMinutes, 60))

\* addBlock of createIntelligentFallbackSchedule: the block starts at currentTime,
\* which is the last block's endTime unless the caller moved it (description,
\* priority and flexible are constant metadata and are left out of the record)
addBlock(blocks, currentTime, title, duration, type) ==
    Append(blocks,
           [id |-> Len(blocks) + 1, title |-> title, startTime |-> currentTime,
            endTime |-> addMinutesToTime(currentTime, duration),
            duration |-> duration, type |-> type])

\* the endTime of the last block added
lastEnd(blocks) == blocks[Len(blocks)].endTime

\* addBlock when currentTime is the endTime of the last block added
addNext(blocks, title, duration, type) ==
    addBlock(blocks, lastEnd(blocks), title, duration, type)

\* "Add commute if work doesn't start at 9"
withCommute(blocks, workStart) ==
    LET commuteTime == timeToMinutes(workStart) - timeToMinutes(lastEnd(blocks))
    IN  IF workStart # HHMM(9, 0) /\ commuteTime > 0
        THEN addNext(blocks, "Commute to Work", Min(commuteTime, 60), "commute")
        ELSE blocks

\* currentTime is moved to workStart when it is earlier; the morning session is
\* added when its duration is positive; the lunch break follows at currentTime
withMorningWorkAndLunch(blocks, workStart) ==
    LET currentTime == IF timeToMinutes(lastEnd(blocks)) < timeToMinutes(workStart)
                       THEN workStart ELSE lastEnd(blocks)
        morningWorkDuration ==
            Min(180, timeToMinutes(HHMM(12, 0)) - timeToMinutes(currentTime))
    IN  IF morningWorkDuration > 0
        THEN addNext(addBlock(blocks, currentTime, "Work - Morning Session",
                              morningWorkDuration, "work"),
                     "Lunch Break", 60, "meal")
        ELSE addBlock(blocks, currentTime, "Lunch Break", 60, "meal")

withAfternoonWork(blocks, workEnd) ==
    LET afternoonWorkDuration ==
            Min(240, timeToMinutes(workEnd) - timeToMinutes(lastEnd(blocks)))
    IN  IF afternoonWorkDuration > 0
        THEN addNext(blocks, "Work - Afternoon Session", afternoonWorkDuration, "work")
        ELSE blocks

\* The text is modelled by what its three regular expressions capture:
\*   input.work     <<>> when workMatch has no hour groups, else <<start, end>>,
\*                  the numbers of groups (2,3) or (4,5)
\*   input.exercise <<>> when exerciseMatch has no group 2, else <<group 2>>
\*   input.sleep    <<>> when sleepMatch has no group 2, else <<group 2>>
createIntelligentFallbackSchedule(input) ==
    LET workStart == IF input.work = <<>> THEN HHMM(9, 0) ELSE HHMM(input.work[1], 0)
        workEnd   == IF input.work = <<>> THEN HHMM(17, 0) ELSE HHMM(input.work[2], 0)
        exerciseMinutes == IF input.exercise = <<>> THEN 45 ELSE input.exercise[1]
        sleepHours      == IF input.sleep = <<>> THEN 7 ELSE input.sleep[1]
    IN  scheduleOf(
          addNext(
            addNext(
              addNext(
                addNext(
                  withAfternoonWork(
                    withMorningWorkAndLunch(
                      withCommute(
                        addNext(
                          addBlock(<<>>, HHMM(6, 30), "Morning Routine", 30, "personal"),
                          "Breakfast", 30, "meal"),
                        workStart),
                      workStart),
                    workEnd),
                  "Exercise/Workout", exerciseMinutes, "exercise"),
                "Dinner", 60, "meal"),
              "Personal Time", 120, "personal"),
            "Sleep", sleepHours * 60, "sleep"))

\* scheduleAI.createFallbackSchedule; the text is modelled by what it extracts:
\* input.exerciseMinutes, input.sleepHours (45 and 7 when nothing matches) and
\* input.workStart, the hour 6, 8 or 9
createFallbackSchedule(input) ==
    LET blk(id, title, s, e, d, type) ==
            [id |-> id, title |-> title, startTime |-> s, endTime |-> e,
             duration |-> d, type |-> type]
        blocks ==
            <<blk(1, "Morning Routine", HHMM(6, 30), HHMM(7, 30), 60, "personal"),
              blk(2, "Breakfast", HHMM(7, 30), HHMM(8, 0), 30, "meal"),
              blk(3, "Work Session", HHMM(input.workStart, 0), HHMM(12, 0), 180, "work"),
              blk(4, "Lunch Break", HHMM(12, 0), HHMM(13, 0), 60, "meal"),
              blk(5, "Afternoon Work", HHMM(13, 0), HHMM(17, 0), 240, "work"),
              blk(6, "Exercise/Workout", HHMM(18, 0),
                  addMinutesToTime(HHMM(18, 0), input.exerciseMinutes),
                  input.exerciseMinutes, "exercise"),
              blk(7, "Dinner", HHMM(19, 30), HHMM(20, 30), 60, "meal"),
              blk(8, "Personal Time", HHMM(20, 30), HHMM(22, 30), 120, "personal"),
              blk(9, "Sleep", HHMM(23, 0),
                  addMinutesToTime(HHMM(23, 0), input.sleepHours * 60),
                  input.sleepHours * 60, "sleep")>>
    IN  [blocks            |-> blocks,
         totalHours        |-> 24,
         workLifeBalance   |->
             [workHours       |-> totalOf(blocks, {"work"}),
              personalHours   |-> totalOf(blocks, {"personal", "wellness"}),
              sleepHours      |-> totalOf(blocks, {"sleep"}),
              exerciseMinutes |-> input.exerciseMinutes],
         suggestions       |->
             <<"Consider adding short breaks during work hours",
               "Schedule meals at regular intervals",
               "Include time for personal activities">>,
         optimizationScore |-> 70]

----------------------------------------------------------------------------
(* Layout engine: EnhancedScheduleTimeline.layoutEvents *)

\* pixels per hour
HOUR_HEIGHT == 60

\* minimum height for events, in pixels
MIN_EVENT_HEIGHT == 20

\* blocks.map(block => ...): the layout event of a block before lanes are assigned;
\* top and height are in pixels, HOUR_HEIGHT pixels per 60 minutes
toLayoutEvent(block) ==
    LET start == timeToMinutes(block.startTime)
        end0  == timeToMinutes(block.endTime)
        end1  == IF end0 < start THEN end0 + 1440 ELSE end0
        end   == IF end1 - start < 5 THEN start + 5 ELSE end1
    IN  [id |-> block.id, title |-> block.title, start |-> start, end |-> end,
         type |-> block.type, originalBlock |-> block, lane |-> 0, laneCount |-> 1,
         top |-> (start * 24 * HOUR_HEIGHT) \div 1440,
         height |-> Max(((end - start) * HOUR_HEIGHT) \div 60, MIN_EVENT_HEIGHT)]

\* the comparator of layoutEvents.sort: by start, then the shorter first
compareEvents(a, b) ==
    IF a.start # b.start THEN a.start - b.start
    ELSE (a.end - a.start) - (b.end - b.start)

RECURSIVE InsertEvent(_, _)
InsertEvent(s, e) ==
    IF s = <<>> THEN <<e>>
    ELSE IF compareEvents(s[Len(s)], e) <= 0
         THEN Append(s, e)
         ELSE Append(InsertEvent(SubSeq(s, 1, Len(s) - 1), e), s[Len(s)])

RECURSIVE sortEvents(_)
sortEvents(events) ==
    IF events = <<>> THEN <<>>
    ELSE InsertEvent(sortEvents(SubSeq(events, 1, Len(events) - 1)), events[Len(events)])

\* !(event.end <= groupEvent.start || event.start >= groupEvent.end)
eventsOverlap(event, groupEvent) ==
    ~(event.end <= groupEvent.start \/ event.start >= groupEvent.end)

\* a mutation of overlapsGroup: only the group's latest event is compared
overlapsGroupLast(event, group) == eventsOverlap(event, group[Len(group)])

\* group.some(groupEvent => overlap of event and groupEvent)
overlapsGroup(event, group) ==
    \E m \in 1..Len(group) : eventsOverlap(event, group[m])

\* let lane = 0; while (usedLanes.has(lane)) lane++
firstFreeLane(group) ==
    LET usedLanes == {group[m].lane : m \in 1..Len(group)}
    IN  CHOOSE lane \in 0..Len(group) :
            /\ lane \notin usedLanes
            /\ \A l \in 0..(lane - 1) : l \in usedLanes

\* the loop "for (const event of layoutEvents)": events k+1.. are still to be
\* placed, groups holds the events placed so far with their lanes
RECURSIVE assignLanes(_, _, _)
assignLanes(events, k, groups) ==
    IF k >= Len(events) THEN groups
    ELSE LET event == events[k + 1]
             hits  == {g \in 1..Len(groups) : overlapsGroup(event, groups[g])}
         IN  IF hits = {}
             THEN assignLanes(events, k + 1, Append(groups, <<[event EXCEPT !.lane = 0]>>))
             ELSE LET g == CHOOSE x \in hits : \A y \in hits : x <= y
                      placed == [event EXCEPT !.lane = firstFreeLane(groups[g])]
                  IN  assignLanes(events, k + 1,
                                  [groups EXCEPT ![g] = Append(@, placed)])

\* a mutation of laneCountOf: the + 1 is left out
laneCountOfMaxLane(group) ==
    CHOOSE maxLane \in {group[m].lane : m \in 1..Len(group)} :
        \A m \in 1..Len(group) : group[m].lane <= maxLane

\* Math.max(...group.map(e => e.lane)) + 1
laneCountOf(group) ==
    LET maxLane == CHOOSE l \in {group[m].lane : m \in 1..Len(group)} :
                       \A m \in 1..Len(group) : group[m].lane <= l
    IN  maxLane + 1

\* the events are objects shared by the sorted list and the groups: the returned
\* list is the sorted one, each event with the lane and laneCount of its group
layoutEvents(events) ==
    IF Len(events) = 0 THEN <<>>
    ELSE LET sorted == sortEvents([i \in 1..Len(events) |-> toLayoutEvent(events[i])])
             groups == assignLanes(sorted, 0, <<>>)
             placedOf(e) ==
                 CHOOSE p \in UNION {{[lane |-> groups[g][m].lane, laneCount |-> laneCountOf(groups[g])]
                                         : m \in {x \in 1..Len(groups[g]) : groups[g][x].id = e.id}}
                                     : g \in 1..Len(groups)} : TRUE
         IN  [i \in 1..Len(sorted) |->
                 [sorted[i] EXCEPT !.lane = placedOf(sorted[i]).lane,
                                   !.laneCount = placedOf(sorted[i]).laneCount]]

----------------------------------------------------------------------------
(* Repair runs: validateAndFixSchedule applied to a candidate list, and    *)
(* then to its own result                                                  *)

MaxCands == 3

\* sequences over S of length 0..n
BoundedSeq(S, n) == UNION {[1..k -> S] : k \in 0..n}

\* candidate start times, as minutes of the day: 10:00, 22:00, 22:30, 22:45
CandidateStarts == {600, 1320, 1350, 1365}

\* candidate durations: below the minimum, short, and long enough to pass 24:00
CandidateDurations == {0 - 10, 30, 60, 120}

\* a candidate as the parsing service returns it
Candidate(start, duration, type) ==
    [id |-> 0, title |-> "activity", startTime |-> minutesToTime(start),
     endTime |-> minutesToTime(start + Max(duration, 0)), duration |-> duration,
     type |-> type]

\* a candidate whose endTime lies before its startTime, with duration zero
BackwardCandidate ==
    [id |-> 0, title |-> "activity", startTime |-> HHMM(10, 0), endTime |-> HHMM(9, 0),
     duration |-> 0, type |-> "work"]

CandidateBlocks ==
    {Candidate(s, d, "work") : s \in CandidateStarts, d \in CandidateDurations}
        \cup {BackwardCandidate}

InitRepair ==
    /\ candidates \in BoundedSeq(CandidateBlocks, MaxCands)
    /\ repaired = <<>>
    /\ LayoutIdle
    /\ ScoreIdle
    /\ PlannerIdle
    /\ UtilIdle

FirstRepair ==
    /\ Len(repaired) = 0
    /\ repaired' = <<validateAndFixSchedule([blocks |-> candidates])>>
    /\ UNCHANGED <<candidates, layoutVars, scoreVars, plannerVars, editorVars, utilVars>>

SecondRepair ==
    /\ Len(repaired) = 1
    /\ repaired' = Append(repaired, validateAndFixSchedule(repaired[1]))
    /\ UNCHANGED <<candidates, layoutVars, scoreVars, plannerVars, editorVars, utilVars>>

NextRepair == FirstRepair \/ SecondRepair

SpecRepair == InitRepair /\ [][NextRepair]_vars

\* a block's start and the end of the interval it occupies, in minutes from 00:00
StartOf(b) == timeToMinutes(b.startTime)

OccupiedEnd(b) == timeToMinutes(b.startTime) + b.duration

\* C1: repair idempotence: repairing a repaired list returns the same block list
RepairIdempotent ==
    Len(repaired) = 2 => repaired[2].blocks = repaired[1].blocks

\* C2: no residual overlap: along a repaired list, each block's endTime, as a
\* minute of the day, is at most the next block's startTime
NoResidualOverlap ==
    \A r \in 1..Len(repaired) :
        \A i \in 1..(Len(repaired[r].blocks) - 1) :
            timeToMinutes(repaired[r].blocks[i].endTime)
                <= timeToMinutes(repaired[r].blocks[i + 1].startTime)

\* C2 witness: a repaired list in which a candidate that started before its
\* predecessor's end was moved to that end
OverlapWasFixed ==
    /\ Len(repaired) >= 1
    /\ \E i \in 1..(Len(repaired[1].blocks) - 1) :
          LET s == sortedBlocks(candidates)
          IN  /\ repaired[1].blocks[i + 1].startTime # s[i + 1].startTime
              /\ repaired[1].blocks[i + 1].startTime = repaired[1].blocks[i].endTime

\* C3: the repaired list is strictly sorted by start time and no two of its
\* blocks occupy intersecting intervals [startTime, startTime + duration)
RepairedSortedDisjoint ==
    \A r \in 1..Len(repaired) :
        \A i, j \in 1..Len(repaired[r].blocks) :
            i < j =>
                LET a == repaired[r].blocks[i]
                    b == repaired[r].blocks[j]
                IN  /\ StartOf(a) < StartOf(b)
                    /\ (OccupiedEnd(a) <= StartOf(b) \/ OccupiedEnd(b) <= StartOf(a))

----------------------------------------------------------------------------
(* Layout runs: layoutEvents applied to a block list that may overlap      *)

MaxLayoutBlocks == 4

\* <<start, end>> in minutes of the day: 09:00-11:00, 10:00-10:30, 10:15-10:45,
\* 10:30-11:00, 11:00-12:00, a block across midnight (23:00-06:00), a block
\* shorter than the 5 minute visual minimum, and 00:00-09:00
LayoutIntervals ==
    {<<540, 660>>, <<600, 630>>, <<615, 645>>, <<630, 660>>, <<660, 720>>,
     <<1380, 360>>, <<600, 602>>, <<0, 540>>}

\* the block list with the given intervals, ids 1..n by position
LayoutInput(intervals) ==
    [i \in 1..Len(intervals) |->
        [id |-> i, title |-> "activity",
         startTime |-> minutesToTime(intervals[i][1]),
         endTime |-> minutesToTime(intervals[i][2]),
         duration |-> JSRem(intervals[i][2] - intervals[i][1] + 1440, 1440),
         type |-> "work"]]

InitLayout ==
    /\ layoutBlocks \in {LayoutInput(iv) : iv \in BoundedSeq(LayoutIntervals, MaxLayoutBlocks)}
    /\ layouted = [done |-> FALSE, events |-> <<>>]
    /\ RepairIdle
    /\ ScoreIdle
    /\ PlannerIdle
    /\ UtilIdle

RunLayout ==
    /\ ~layouted.done
    /\ layouted' = [done |-> TRUE, events |-> layoutEvents(layoutBlocks)]
    /\ UNCHANGED <<layoutBlocks, repairVars, scoreVars, plannerVars, editorVars, utilVars>>

NextLayout == RunLayout

SpecLayout == InitLayout /\ [][NextLayout]_vars

\* the indices of the events reachable from event i through overlapping events
RECURSIVE OverlapClosure(_, _)
OverlapClosure(events, S) ==
    LET T == S \cup {j \in 1..Len(events) :
                        \E i \in S : eventsOverlap(events[i], events[j])}
    IN  IF T = S THEN S ELSE OverlapClosure(events, T)

OverlapGroup(events, i) == OverlapClosure(events, {i})

\* C5: lane non-collision: two layout events whose intervals [start, end)
\* intersect are in different lanes
LaneNonCollision ==
    \A i, j \in 1..Len(layouted.events) :
        (i # j /\ eventsOverlap(layouted.events[i], layouted.events[j]))
            => layouted.events[i].lane # layouted.events[j].lane

\* C5 witness: the layout of 09:00-11:00, 10:00-10:30, 10:15-10:45 uses 3 lanes
ThreeOverlappingLaid ==
    /\ layouted.done
    /\ Len(layouted.events) = 3
    /\ \A i, j \in 1..3 :
          i # j => eventsOverlap(layouted.events[i], layouted.events[j])
    /\ {layouted.events[i].lane : i \in 1..3} = {0, 1, 2}

\* C6: the events of one overlap group carry the same laneCount, which is
\* 1 + the largest lane of the group, and every lane is in 0..laneCount - 1
LaneCountPerGroup ==
    \A i \in 1..Len(layouted.events) :
        LET e == layouted.events
            G == OverlapGroup(e, i)
        IN  /\ \A j \in G : e[j].laneCount = e[i].laneCount
            /\ \E j \in G : e[j].lane + 1 = e[i].laneCount
            /\ \A j \in G : e[j].lane \in 0..(e[i].laneCount - 1)

\* C6 witness: a layout with two overlap groups of different laneCount, one of
\* them with more than one lane
TwoGroupsLaid ==
    /\ layouted.done
    /\ \E i, j \in 1..Len(layouted.events) :
          /\ j \notin OverlapGroup(layouted.events, i)
          /\ layouted.events[i].laneCount >= 2
          /\ layouted.events[j].laneCount # layouted.events[i].laneCount

----------------------------------------------------------------------------
(* Builder runs: the balance, suggestion and score functions applied to a  *)
(* block list, directly and through the builder's three entry points       *)

MaxScoreBlocks == 3

\* <<type, duration>> of the blocks of a list: 10 h, 5 h and 4 h of work, 6 h,
\* 8 h and 10 h of sleep, 1 h and 2 h of personal time, and so on
ScoreKinds ==
    {<<"work", 600>>, <<"work", 300>>, <<"work", 240>>,
     <<"sleep", 360>>, <<"sleep", 480>>, <<"sleep", 600>>,
     <<"personal", 60>>, <<"personal", 120>>, <<"wellness", 60>>,
     <<"exercise", 30>>, <<"exercise", 20>>,
     <<"meal", 30>>, <<"break", 15>>, <<"commute", 30>>}

\* the blocks of the given kinds: back to back from 00:00, or all starting at 08:00
RECURSIVE ScoreInput(_, _, _)
ScoreInput(kinds, stacked, start) ==
    IF kinds = <<>> THEN <<>>
    ELSE LET k == Head(kinds)
             s == IF stacked THEN 480 ELSE start
         IN  <<[id |-> 0, title |-> "activity", startTime |-> minutesToTime(s),
                endTime |-> minutesToTime(s + k[2]), duration |-> k[2], type |-> k[1]]>>
             \o ScoreInput(Tail(kinds), stacked, s + k[2])

\* what the three regular expressions of the intelligent fallback capture in a
\* text: nothing; "works from 9 to 5, workout for 45min, sleep 7hrs" (the greedy
\* .* leaves one digit to the group); a late start with a commute; an early one
FallbackTexts ==
    {Text(<<>>, <<>>, <<>>), Text(<<9, 5>>, <<5>>, <<7>>),
     Text(<<10, 18>>, <<0>>, <<9>>), Text(<<6, 14>>, <<>>, <<0>>)}

\* what the simple fallback extracts from a text
SimpleFallbackTexts ==
    {[exerciseMinutes |-> 45, sleepHours |-> 7, workStart |-> 9],
     [exerciseMinutes |-> 120, sleepHours |-> 10, workStart |-> 6]}

InitScore ==
    /\ scoreBlocks \in {ScoreInput(k, st, 0) :
                          k \in BoundedSeq(ScoreKinds, MaxScoreBlocks), st \in BOOLEAN}
    /\ scored = [done |-> FALSE]
    /\ RepairIdle
    /\ LayoutIdle
    /\ PlannerIdle
    /\ UtilIdle

\* calculateWorkLifeBalance, generateSmartSuggestions and
\* calculateOptimizationScore on the list as it is
ScoreDirect ==
    /\ ~scored.done
    /\ scored' = [done |-> TRUE, by |-> "direct", schedule |-> scheduleOf(scoreBlocks)]
    /\ UNCHANGED <<scoreBlocks, repairVars, layoutVars, plannerVars, editorVars, utilVars>>

ScoreValidated ==
    /\ ~scored.done
    /\ scored' = [done |-> TRUE, by |-> "validateAndFixSchedule",
                  schedule |-> validateAndFixSchedule([blocks |-> scoreBlocks])]
    /\ UNCHANGED <<scoreBlocks, repairVars, layoutVars, plannerVars, editorVars, utilVars>>

\* the fallbacks take a text, not a block list: they run once, from the empty list
ScoreIntelligentFallback ==
    /\ ~scored.done
    /\ scoreBlocks = <<>>
    /\ \E text \in FallbackTexts :
          scored' = [done |-> TRUE, by |-> "createIntelligentFallbackSchedule",
                     schedule |-> createIntelligentFallbackSchedule(text)]
    /\ UNCHANGED <<scoreBlocks, repairVars, layoutVars, plannerVars, editorVars, utilVars>>

ScoreSimpleFallback ==
    /\ ~scored.done
    /\ scoreBlocks = <<>>
    /\ \E text \in SimpleFallbackTexts :
          scored' = [done |-> TRUE, by |-> "createFallbackSchedule",
                     schedule |-> createFallbackSchedule(text)]
    /\ UNCHANGED <<scoreBlocks, repairVars, layoutVars, plannerVars, editorVars, utilVars>>

NextScore ==
    ScoreDirect \/ ScoreValidated \/ ScoreIntelligentFallback \/ ScoreSimpleFallback

SpecScore == InitScore /\ [][NextScore]_vars

\* C7: score bounds: the optimizationScore of every schedule the builder
\* returns, and of every block list scored directly, is an integer in 0..100
ScoreBounds ==
    scored.done => scored.schedule.optimizationScore \in 0..100

\* C7 witness: a scored list on which every penalty applies, so that the score
\* is 0 (10 h of work and one other block that overlaps it)
ScoreAtZero ==
    /\ scored.done
    /\ scored.by = "direct"
    /\ penalizedScore(scoreBlocks) = 0
    /\ scored.schedule.optimizationScore = 0

\* the members of a suggestion list
Suggested(schedule) == {schedule.suggestions[i] : i \in 1..Len(schedule.suggestions)}

\* C10: generateSmartSuggestions returns 1 to 4 strings; each of the four
\* balance rules that applies to the totals of the list puts its suggestion in
\* the result; when no rule applies the result holds only the neutral messages;
\* 10 h work, no exercise, 6 h sleep and 1 h personal time score below 50
SuggestionRules ==
    (scored.done /\ scored.by # "createFallbackSchedule") =>
        LET sch == scored.schedule
            b == sch.blocks
            work == totalOf(b, {"work"})
            exercise == totalOf(b, {"exercise"})
            sleep == totalOf(b, {"sleep"})
            personal == totalOf(b, {"personal", "wellness"})
            longWork == \E i \in 1..Len(b) : b[i].type = "work" /\ b[i].duration > 240
        IN  /\ Len(sch.suggestions) \in 1..4
            /\ work > 540 => ReduceWork \in Suggested(sch)
            /\ exercise < 30 => AddExercise \in Suggested(sch)
            /\ sleep < 420 => IncreaseSleep \in Suggested(sch)
            /\ personal < 120 => AddPersonal \in Suggested(sch)
            /\ (work <= 540 /\ exercise >= 30 /\ sleep >= 420 /\ personal >= 120 /\ ~longWork)
                  => Suggested(sch) \subseteq {WellBalanced, AddVariety}
            /\ (work = 600 /\ exercise = 0 /\ sleep = 360 /\ personal = 60)
                  => /\ sch.optimizationScore < 50
                     /\ {ReduceWork, AddExercise, IncreaseSleep} \subseteq Suggested(sch)

\* C10 witness: the schedule with 10 h work, no exercise, 6 h sleep and 1 h
\* personal time has been scored, and all four balance suggestions are given
ScenarioEScored ==
    /\ scored.done
    /\ scored.by = "direct"
    /\ totalOf(scoreBlocks, {"work"}) = 600
    /\ totalOf(scoreBlocks, {"exercise"}) = 0
    /\ totalOf(scoreBlocks, {"sleep"}) = 360
    /\ totalOf(scoreBlocks, {"personal", "wellness"}) = 60
    /\ Len(scored.schedule.suggestions) = 4

----------------------------------------------------------------------------
(* The planner (ModernPlannerInterface) and the timeline editor            *)
(* (EnhancedScheduleTimeline).  Every action is one task of the UI event   *)
(* loop: a DOM event with the state updates its handlers make, or the      *)
(* continuation of an await.                                               *)

\* Snap to 5-minute increments
SNAP_MINUTES == 5

snapToGridDown(minutes) == (minutes \div SNAP_MINUTES) * SNAP_MINUTES

\* Math.round(x) is floor(x + 1/2)
snapToGrid(minutes) == ((2 * minutes + SNAP_MINUTES) \div (2 * SNAP_MINUTES)) * SNAP_MINUTES

\* { ...block, ...updates }
merged(block, updates) ==
    [f \in DOMAIN block |-> IF f \in DOMAIN updates THEN updates[f] ELSE block[f]]

\* blocks.find(b => b.id === blockId): <<>> (undefined) or <<block>>
findBlock(blocks, blockId) ==
    LET hits == {i \in 1..Len(blocks) : blocks[i].id = blockId}
    IN  IF hits = {} THEN <<>>
        ELSE <<blocks[CHOOSE i \in hits : \A j \in hits : i <= j]>>

\* blocks.filter(block => block.id !== blockId)
RECURSIVE withoutBlock(_, _)
withoutBlock(blocks, blockId) ==
    IF blocks = <<>> THEN <<>>
    ELSE (IF Head(blocks).id # blockId THEN <<Head(blocks)>> ELSE <<>>)
         \o withoutBlock(Tail(blocks), blockId)

\* The handlers below are functions of st = [scheduleData, hasUnsavedChanges,
\* editingBlock], the state they update, and of closure, the scheduleData of the
\* render that created the callback (the dependency of its useCallback).

\* setScheduleData(prev => prev ? { ...prev, blocks: updatedBlocks } : null);
\* setHasUnsavedChanges(true)
setBlocks(st, updatedBlocks) ==
    [st EXCEPT !.scheduleData =
                  IF @ = <<>> THEN <<>> ELSE <<[@[1] EXCEPT !.blocks = updatedBlocks]>>,
               !.hasUnsavedChanges = TRUE]

handleBlockUpdate(st, closure, blockId, updates) ==
    IF closure = <<>> THEN st
    ELSE setBlocks(st, [i \in 1..Len(closure[1].blocks) |->
                          IF closure[1].blocks[i].id = blockId
                          THEN merged(closure[1].blocks[i], updates)
                          ELSE closure[1].blocks[i]])

handleBlockDelete(st, closure, blockId) ==
    IF closure = <<>> THEN st
    ELSE setBlocks(st, withoutBlock(closure[1].blocks, blockId))

startEditing(st, blockId) == [st EXCEPT !.editingBlock = blockId]

stopEditing(st) == [st EXCEPT !.editingBlock = 0]

\* the switch on event.key: the cases 'Shift+ArrowUp' and 'Shift+ArrowDown' are
\* never taken, since event.key of an arrow key is 'ArrowUp' or 'ArrowDown'
\* whether or not Shift is held
handleKeyDown(st, closure, key, blockId) ==
    LET found == findBlock(closure[1].blocks, blockId)
        block == found[1]
        currentStartTime == timeToMinutes(block.startTime)
        currentEndTime == timeToMinutes(block.endTime)
        duration == currentEndTime - currentStartTime
        up == Max(0, snapToGrid(currentStartTime - 15))
        down == Min(1440 - duration, snapToGrid(currentStartTime + 15))
    IN  IF found = <<>> THEN st
        ELSE CASE key = "ArrowUp" ->
                    handleBlockUpdate(st, closure, blockId,
                        [startTime |-> minutesToTime(up),
                         endTime |-> minutesToTime(up + duration)])
               [] key = "ArrowDown" ->
                    handleBlockUpdate(st, closure, blockId,
                        [startTime |-> minutesToTime(down),
                         endTime |-> minutesToTime(down + duration)])
               [] key \in {"Enter", " "} -> startEditing(st, blockId)
               [] key \in {"Delete", "Backspace"} -> handleBlockDelete(st, closure, blockId)
               [] OTHER -> st

\* onKeyDown of the title input, then of the block the event bubbles to
titleInputKeyDown(st, closure, key, value, blockId) ==
    LET own == CASE key = "Enter" ->
                      stopEditing(handleBlockUpdate(st, closure, blockId, [title |-> value]))
                 [] key = "Escape" -> stopEditing(st)
                 [] OTHER -> st
    IN  handleKeyDown(own, closure, key, blockId)

\* handleMouseMove of a drag: deltaY pixels are deltaY minutes at HOUR_HEIGHT 60
dragMove(st, g, deltaY) ==
    LET deltaMinutes == (deltaY * 60) \div HOUR_HEIGHT
        originalStartTime == timeToMinutes(g.block.startTime)
        newStartMinutes == snapToGrid(originalStartTime + deltaMinutes)
        duration == timeToMinutes(g.block.endTime) - timeToMinutes(g.block.startTime)
        clampedStartMinutes == Max(0, Min(1440 - duration, newStartMinutes))
    IN  handleBlockUpdate(st, g.closure, g.blockId,
            [startTime |-> minutesToTime(clampedStartMinutes),
             endTime |-> minutesToTime(clampedStartMinutes + duration)])

\* handleMouseMove of a resize
resizeMove(st, g, deltaY) ==
    LET deltaMinutes == (deltaY * 60) \div HOUR_HEIGHT
        originalEndTime == timeToMinutes(g.block.endTime)
        originalStartTime == timeToMinutes(g.block.startTime)
        newEndMinutes == snapToGrid(originalEndTime + deltaMinutes)
        minEndTime == originalStartTime + 15
        maxEndTime == 1440
        clampedEndMinutes == Max(minEndTime, Min(maxEndTime, newEndMinutes))
    IN  handleBlockUpdate(st, g.closure, g.blockId,
            [endTime |-> minutesToTime(clampedEndMinutes)])

MaxEdits == 3

\* the user's gestures and keys go to the first MaxTargets blocks of the timeline
MaxTargets == 3

targets(schedule) == 1..Min(Len(schedule[1].blocks), MaxTargets)

\* the texts the user types
PlannerTexts == {Text(<<>>, <<>>, <<>>), Text(<<9, 5>>, <<5>>, <<7>>)}

\* the block lists of the objects the parsing service returns
ServiceObjects ==
    {<<Candidate(540, 480, "work"), Candidate(1290, 47, "personal"),
       Candidate(1380, 420, "sleep")>>,
     <<Candidate(600, 60, "work"), Candidate(600, 30, "meal"),
       Candidate(1430, 30, "wellness")>>}

\* vertical pointer movements since mouse down, in pixels
PointerDeltas == {0 - 30, 7, 120}

\* the titles typed into the title input
Titles == {"renamed"}

\* the values of event.key of the keys pressed; an arrow key pressed with Shift
\* held has the same event.key as without
Keys == {"ArrowUp", "ArrowDown", "Enter", "Backspace", "Escape"}

Views == {"input", "timeline", "analytics"}

Init ==
    /\ configured \in BOOLEAN
    /\ naturalLanguageInput = NoText
    /\ isProcessing = FALSE
    /\ error = <<>>
    /\ currentView = "input"
    /\ scheduleData = <<>>
    /\ hasUnsavedChanges = FALSE
    /\ request = IdleRequest
    /\ parsePromise = NoPromise
    /\ editingBlock = 0
    /\ gesture = <<>>
    /\ edits = 0
    /\ RepairIdle
    /\ LayoutIdle
    /\ ScoreIdle
    /\ UtilIdle

otherRuns == <<repairVars, layoutVars, scoreVars, utilVars>>

\* the timeline is rendered: currentView === 'timeline' && scheduleData
timelineMounted == currentView = "timeline" /\ scheduleData # <<>>

\* the state the editor's handlers update
editorState ==
    [scheduleData |-> scheduleData, hasUnsavedChanges |-> hasUnsavedChanges,
     editingBlock |-> editingBlock]

applyEditor(st) ==
    /\ scheduleData' = st.scheduleData
    /\ hasUnsavedChanges' = st.hasUnsavedChanges
    /\ editingBlock' = st.editingBlock

\* onChange of the textarea
TypeInput ==
    /\ currentView = "input"
    /\ gesture = <<>>
    /\ \E text \in PlannerTexts :
          /\ text # naturalLanguageInput
          /\ naturalLanguageInput' = text
    /\ UNCHANGED <<configured, isProcessing, error, currentView, scheduleData,
                   hasUnsavedChanges, request, parsePromise, editorVars, otherRuns>>

\* processNaturalLanguageInput up to its first await; the Generate button is
\* disabled while isProcessing or while the text is blank
Generate ==
    /\ currentView = "input"
    /\ gesture = <<>>
    /\ ~isProcessing
    /\ ~naturalLanguageInput.blank
    /\ isProcessing' = TRUE
    /\ error' = <<>>
    /\ request' = [pc |-> "delay500", text |-> naturalLanguageInput, result |-> <<>>,
                   cleared |-> FALSE]
    /\ parsePromise' = NoPromise
    /\ UNCHANGED <<configured, naturalLanguageInput, currentView, scheduleData,
                   hasUnsavedChanges, editorVars, otherRuns>>

\* after the 500 ms delay parseScheduleFromText is called; without an API key it
\* throws before its try block: the promise rejects, the planner's catch sets
\* the error and its finally block starts the 1000 ms timer
CallParseUnconfigured ==
    /\ request.pc = "delay500"
    /\ ~configured
    /\ parsePromise' = [status |-> "rejected", service |-> "not configured", value |-> <<>>]
    /\ error' = <<"AI Processing Error: AI service is not configured. Please check your API keys.">>
    /\ request' = [request EXCEPT !.pc = "finally"]
    /\ UNCHANGED <<configured, naturalLanguageInput, isProcessing, currentView,
                   scheduleData, hasUnsavedChanges, editorVars, otherRuns>>

\* with an API key generateObject is awaited
CallParse ==
    /\ request.pc = "delay500"
    /\ configured
    /\ parsePromise' = [status |-> "pending", service |-> "called", value |-> <<>>]
    /\ request' = [request EXCEPT !.pc = "parsing"]
    /\ UNCHANGED <<configured, naturalLanguageInput, isProcessing, error, currentView,
                   scheduleData, hasUnsavedChanges, editorVars, otherRuns>>

\* generateObject resolves with a schema-valid object: it is validated and fixed
ServiceReturns ==
    /\ request.pc = "parsing"
    /\ \E blocks \in ServiceObjects :
          LET result == validateAndFixSchedule([blocks |-> blocks])
          IN  /\ parsePromise' = [status |-> "resolved", service |-> "returned",
                                  value |-> <<result>>]
              /\ request' = [request EXCEPT !.pc = "delay800", !.result = <<result>>]
    /\ UNCHANGED <<configured, naturalLanguageInput, isProcessing, error, currentView,
                   scheduleData, hasUnsavedChanges, editorVars, otherRuns>>

\* generateObject throws (service unavailable, malformed response): the catch
\* block of parseScheduleFromText returns the intelligent fallback schedule
ServiceFails ==
    /\ request.pc = "parsing"
    /\ LET result == createIntelligentFallbackSchedule(request.text)
       IN  /\ parsePromise' = [status |-> "resolved", service |-> "failed",
                               value |-> <<result>>]
           /\ request' = [request EXCEPT !.pc = "delay800", !.result = <<result>>]
    /\ UNCHANGED <<configured, naturalLanguageInput, isProcessing, error, currentView,
                   scheduleData, hasUnsavedChanges, editorVars, otherRuns>>

\* after the 800 ms delay the result is installed and the finally block starts
\* the 1000 ms timer; the timeline keeps its state when it is already mounted
InstallResult ==
    /\ request.pc = "delay800"
    /\ scheduleData' = request.result
    /\ currentView' = "timeline"
    /\ hasUnsavedChanges' = FALSE
    /\ request' = [request EXCEPT !.pc = "finally"]
    /\ IF timelineMounted
       THEN UNCHANGED <<editingBlock, gesture>>
       ELSE editingBlock' = 0 /\ gesture' = <<>>
    /\ UNCHANGED <<configured, naturalLanguageInput, isProcessing, error, parsePromise,
                   edits, otherRuns>>

\* the timer of the finally block
FinishProcessing ==
    /\ request.pc = "finally"
    /\ isProcessing' = FALSE
    /\ request' = IdleRequest
    /\ UNCHANGED <<configured, naturalLanguageInput, error, currentView, scheduleData,
                   hasUnsavedChanges, parsePromise, editorVars, otherRuns>>

\* a navigation button (enabled once a schedule exists); leaving the timeline
\* unmounts it: its state is lost and its mouse listeners find no timelineRef
Navigate ==
    /\ scheduleData # <<>>
    /\ gesture = <<>>
    /\ \E view \in Views :
          /\ view # currentView
          /\ currentView' = view
    /\ editingBlock' = 0
    /\ UNCHANGED <<configured, naturalLanguageInput, isProcessing, error, scheduleData,
                   hasUnsavedChanges, request, parsePromise, gesture, edits, otherRuns>>

\* the Clear button of the header, shown once a schedule exists
clearSchedule ==
    /\ scheduleData # <<>>
    /\ gesture = <<>>
    /\ scheduleData' = <<>>
    /\ naturalLanguageInput' = NoText
    /\ currentView' = "input"
    /\ hasUnsavedChanges' = FALSE
    /\ editingBlock' = 0
    /\ request' = [request EXCEPT !.cleared = @ \/ request.pc \in {"delay500", "parsing"}]
    /\ UNCHANGED <<configured, isProcessing, error, parsePromise, gesture,
                   edits, otherRuns>>

plannerRest == <<configured, naturalLanguageInput, isProcessing, error, currentView,
                 request, parsePromise>>

\* onMouseDown of a block that is not being edited (handleMouseDown) or of its
\* resize handle (handleResizeMouseDown): the listeners keep the block and the
\* onBlockUpdate of this render
MouseDown ==
    /\ timelineMounted
    /\ gesture = <<>>
    /\ edits < MaxEdits
    /\ \E kind \in {"drag", "resize"}, i \in targets(scheduleData) :
          LET blockId == scheduleData[1].blocks[i].id
          IN  /\ editingBlock # blockId
              /\ gesture' = <<[kind |-> kind, blockId |-> blockId,
                               closure |-> scheduleData,
                               block |-> findBlock(scheduleData[1].blocks, blockId)[1]]>>
    /\ edits' = edits + 1
    /\ UNCHANGED <<scheduleData, hasUnsavedChanges, editingBlock, plannerRest, otherRuns>>

\* mousemove on document while a drag or resize is on
MouseMove ==
    /\ gesture # <<>>
    /\ edits < MaxEdits
    /\ \E deltaY \in PointerDeltas :
          applyEditor(IF gesture[1].kind = "drag"
                      THEN dragMove(editorState, gesture[1], deltaY)
                      ELSE resizeMove(editorState, gesture[1], deltaY))
    /\ edits' = edits + 1
    /\ UNCHANGED <<gesture, plannerRest, otherRuns>>

\* mouseup on document
MouseUp ==
    /\ gesture # <<>>
    /\ gesture' = <<>>
    /\ UNCHANGED <<scheduleData, hasUnsavedChanges, editingBlock, edits, plannerRest,
                   otherRuns>>

\* a key pressed while a block has the focus
BlockKeyDown ==
    /\ timelineMounted
    /\ edits < MaxEdits
    /\ \E key \in Keys, i \in targets(scheduleData) :
          applyEditor(handleKeyDown(editorState, scheduleData, key,
                                    scheduleData[1].blocks[i].id))
    /\ edits' = edits + 1
    /\ UNCHANGED <<gesture, plannerRest, otherRuns>>

\* a key pressed in the title input of the block being edited; value is the
\* text in the input
TitleKeyDown ==
    /\ timelineMounted
    /\ edits < MaxEdits
    /\ findBlock(scheduleData[1].blocks, editingBlock) # <<>>
    /\ \E key \in Keys, value \in Titles :
          applyEditor(titleInputKeyDown(editorState, scheduleData, key, value,
                                        editingBlock))
    /\ edits' = edits + 1
    /\ UNCHANGED <<gesture, plannerRest, otherRuns>>

\* onBlur of the title input
TitleBlur ==
    /\ timelineMounted
    /\ edits < MaxEdits
    /\ findBlock(scheduleData[1].blocks, editingBlock) # <<>>
    /\ \E value \in Titles :
          applyEditor(stopEditing(handleBlockUpdate(editorState, scheduleData,
                                                    editingBlock, [title |-> value])))
    /\ edits' = edits + 1
    /\ UNCHANGED <<gesture, plannerRest, otherRuns>>

\* double click on a block, or a click on its Edit button
StartEditing ==
    /\ timelineMounted
    /\ gesture = <<>>
    /\ edits < MaxEdits
    /\ \E i \in targets(scheduleData) :
          applyEditor(startEditing(editorState, scheduleData[1].blocks[i].id))
    /\ edits' = edits + 1
    /\ UNCHANGED <<gesture, plannerRest, otherRuns>>

\* a click on the Delete button of a block that is not being edited
ClickDelete ==
    /\ timelineMounted
    /\ gesture = <<>>
    /\ edits < MaxEdits
    /\ \E i \in targets(scheduleData) :
          /\ editingBlock # scheduleData[1].blocks[i].id
          /\ applyEditor(handleBlockDelete(editorState, scheduleData,
                                           scheduleData[1].blocks[i].id))
    /\ edits' = edits + 1
    /\ UNCHANGED <<gesture, plannerRest, otherRuns>>

Next ==
    \/ TypeInput
    \/ Generate
    \/ CallParseUnconfigured
    \/ CallParse
    \/ ServiceReturns
    \/ ServiceFails
    \/ InstallResult
    \/ FinishProcessing
    \/ Navigate
    \/ clearSchedule
    \/ MouseDown
    \/ MouseMove
    \/ MouseUp
    \/ BlockKeyDown
    \/ TitleKeyDown
    \/ TitleBlur
    \/ StartEditing
    \/ ClickDelete

Spec == Init /\ [][Next]_vars

\* minutes from a block's startTime to its endTime, around midnight
spanOf(block) == (timeToMinutes(block.endTime) - timeToMinutes(block.startTime) + 1440) % 1440

\* C4: in every reachable state of the planner, after generation and after any
\* drag, resize, key press, title edit or deletion, every block of the schedule
\* has duration = (endTime - startTime) mod 1440.
DurationInvariant ==
    scheduleData # <<>> =>
        \A i \in 1..Len(scheduleData[1].blocks) :
            scheduleData[1].blocks[i].duration = spanOf(scheduleData[1].blocks[i])

\* C8: whenever the parsing service is not configured, is unavailable or returns
\* a malformed response, parseScheduleFromText does not reject: its promise
\* resolves with the fallback schedule, which has at least one block.
ParseFailureRecovered ==
    parsePromise.service \in {"not configured", "failed"} =>
        /\ parsePromise.status = "resolved"
        /\ Len(parsePromise.value[1].blocks) >= 1

\* C9: in every reachable state of the planner the stored workLifeBalance,
\* suggestions and optimizationScore of the schedule equal the values recomputed
\* from its current block list, and totalHours is the value the builder gives it.
AggregatesRecomputed ==
    scheduleData # <<>> =>
        /\ scheduleData[1].totalHours = scheduleOf(scheduleData[1].blocks).totalHours
        /\ scheduleData[1].workLifeBalance = calculateWorkLifeBalance(scheduleData[1].blocks)
        /\ scheduleData[1].suggestions = generateSmartSuggestions(scheduleData[1].blocks)
        /\ scheduleData[1].optimizationScore = calculateOptimizationScore(scheduleData[1].blocks)

----------------------------------------------------------------------------
(* Runs of the time utilities: one minute count, one utility applied to it *)

MaxMinutes == 1500

\* the minute counts handed to the utilities: negative, within the day, 1440 and above
MinuteInputs == (0 - MaxMinutes)..MaxMinutes

InitTime ==
    /\ minuteInput \in MinuteInputs
    /\ converted = [done |-> FALSE]
    /\ RepairIdle
    /\ LayoutIdle
    /\ ScoreIdle
    /\ PlannerIdle
    /\ FormIdle
    /\ ExportIdle
    /\ OptimizerIdle

\* snapToGrid applied once and applied to its own result
RunSnap ==
    /\ ~converted.done
    /\ converted' = [done |-> TRUE, by |-> "snapToGrid",
                     once |-> snapToGrid(minuteInput),
                     twice |-> snapToGrid(snapToGrid(minuteInput))]
    /\ UNCHANGED <<minuteInput, mainVars, formVars, exportVars, optimizerVars>>

\* minutesToTime, and timeToMinutes applied to the string it returned
RunMinutesToTime ==
    /\ ~converted.done
    /\ converted' = [done |-> TRUE, by |-> "minutesToTime",
                     time |-> minutesToTime(minuteInput),
                     back |-> timeToMinutes(minutesToTime(minuteInput))]
    /\ UNCHANGED <<minuteInput, mainVars, formVars, exportVars, optimizerVars>>

NextTime == RunSnap \/ RunMinutesToTime

SpecTime == InitTime /\ [][NextTime]_vars

Abs(n) == IF n >= 0 THEN n ELSE 0 - n

\* C11: for every integer minute value x, snapToGrid(snapToGrid(x)) = snapToGrid(x),
\* and snapToGrid(x) is a multiple of 5 that differs from x by at most 2.
SnapIdempotent ==
    (converted.done /\ converted.by = "snapToGrid") =>
        /\ converted.twice = converted.once
        /\ converted.once % 5 = 0
        /\ Abs(converted.once - minuteInput) <= 2

\* a negative minute value off the grid was snapped down to the grid
NegativeSnapped ==
    /\ converted.done /\ converted.by = "snapToGrid"
    /\ minuteInput = 0 - 3
    /\ converted.once = 0 - 5

\* C16: for every integer minute count m, minutesToTime(m) is a well-formed HH:MM
\* string that denotes m mod 1440, and timeToMinutes(minutesToTime(m)) = m mod 1440.
MinutesToTimeRoundTrip ==
    (converted.done /\ converted.by = "minutesToTime") =>
        /\ WellFormedTime(converted.time)
        /\ converted.time.h * 60 + converted.time.m = minuteInput % 1440
        /\ converted.back = minuteInput % 1440
        /\ converted.back \in 0..1439

----------------------------------------------------------------------------
(* The planner while a generation request is in flight *)

\* C12: while the parseScheduleFromText call of a generation request is pending,
\* no editor operation changes the block list, also when a schedule of an
\* earlier request exists.
NoEditWhilePending ==
    [][(parsePromise.status = "pending" /\ scheduleData # <<>> /\ scheduleData' # <<>>)
          => scheduleData'[1].blocks = scheduleData[1].blocks]_vars

\* C13: a step that installs a generation result as scheduleData installs the
\* result of the request in flight, and never that of a request the user
\* abandoned by clearing the schedule before it resolved.
LastRequestWins ==
    [][(request.pc = "delay800" /\ request'.pc = "finally")
          => (scheduleData' = request.result /\ ~request.cleared)]_vars

----------------------------------------------------------------------------
(* The edit forms of ScheduleTimeline and PlannerInterface: one block, its   *)
(* draft, and what saveEditing writes                                        *)

\* A typed time text is modelled by what parsing reads in it: "HH:MM" with the
\* two numbers, the empty text of a cleared time input, or words
Typed(h, m) == [text |-> "HH:MM", h |-> h, m |-> m]

EmptyText == [text |-> "", h |-> 0, m |-> 0]

WordsText == [text |-> "soon", h |-> 0, m |-> 0]

\* a JavaScript number: an integer or NaN
Num(n) == [nan |-> FALSE, n |-> n]

NaN == [nan |-> TRUE, n |-> 0]

minus(a, b) == IF a.nan \/ b.nan THEN NaN ELSE Num(a.n - b.n)

\* a <= 0, false for NaN
atMostZero(a) == ~a.nan /\ a.n <= 0

\* timeToMinutes of ScheduleTimeline: split(':').map(Number), hours * 60 + minutes
formTimeToMinutes(time) == IF time.text = "HH:MM" THEN Num(time.h * 60 + time.m) ELSE NaN

\* the saveEditing of ScheduleTimeline followed by its owner's onBlockUpdate
timelineSaveEditing(st) ==
    IF st.editDraft = <<>> THEN st
    ELSE LET d == st.editDraft[1]
             startMinutes == formTimeToMinutes(d.startTime)
             endMinutes == formTimeToMinutes(d.endTime)
             duration == minus(endMinutes, startMinutes)
         IN  IF atMostZero(duration) THEN st
             ELSE [task |-> [st.task EXCEPT !.title = d.title, !.startTime = d.startTime,
                                            !.endTime = d.endTime, !.duration = duration,
                                            !.type = d.type],
                   editDraft |-> <<>>]

\* parseTimeToMinutes of PlannerInterface: 0 for an empty or non-numeric text
parseTimeToMinutes(t) == IF t.text = "HH:MM" THEN t.h * 60 + t.m ELSE 0

\* minutesToTime of PlannerInterface: no wrap at 24 hours
plannerMinutesToTime(mins) == Typed(mins \div 60, JSRem(mins, 60))

recalcDuration(startTime, endTime) ==
    Max(0, parseTimeToMinutes(endTime) - parseTimeToMinutes(startTime))

\* the saveEditing of PlannerInterface
plannerSaveEditing(st) ==
    IF st.editDraft = <<>> THEN st
    ELSE LET d == st.editDraft[1]
             byDuration == /\ d.duration # <<>>
                           /\ d.duration[1] # 0
                           /\ parseTimeToMinutes(d.startTime) >= 0
             endTime == IF byDuration
                        THEN plannerMinutesToTime(parseTimeToMinutes(d.startTime) + d.duration[1])
                        ELSE d.endTime
             newDuration == IF byDuration THEN d.duration[1]
                            ELSE recalcDuration(d.startTime, d.endTime)
         IN  IF newDuration <= 0 THEN st
             ELSE [task |-> [st.task EXCEPT !.title = d.title, !.startTime = d.startTime,
                                            !.endTime = endTime, !.duration = Num(newDuration),
                                            !.type = d.type],
                   editDraft |-> <<>>]

\* startEditing of either component: the draft is a copy of the block's fields;
\* the draft of PlannerInterface also holds the duration
formStartEditing(by, block) ==
    [title |-> block.title, startTime |-> block.startTime, endTime |-> block.endTime,
     type |-> block.type,
     duration |-> IF by = "PlannerInterface" THEN <<block.duration.n>> ELSE <<>>]

MaxSaves == 2

FormComponents == {"ScheduleTimeline", "PlannerInterface"}

\* the block the form edits
FormTask ==
    [id |-> 1, title |-> "activity", startTime |-> Typed(10, 0), endTime |-> Typed(11, 0),
     duration |-> Num(60), type |-> "work"]

\* what can be typed into a time field: ScheduleTimeline uses time inputs, which
\* hold a valid time or nothing; PlannerInterface uses plain text inputs
FormTexts(by) ==
    {Typed(9, 0), Typed(10, 0), Typed(12, 30), EmptyText}
        \cup (IF by = "PlannerInterface" THEN {WordsText} ELSE {})

\* what can be typed into the duration field of PlannerInterface
FormDurations == {0, 30, 90}

InitForm ==
    /\ component \in FormComponents
    /\ task = <<FormTask>>
    /\ editDraft = <<>>
    /\ saves = 0
    /\ RepairIdle
    /\ LayoutIdle
    /\ ScoreIdle
    /\ PlannerIdle
    /\ TimeIdle
    /\ ExportIdle
    /\ OptimizerIdle

\* a click on the Edit button of the block
FormStartEditing ==
    /\ editDraft = <<>>
    /\ editDraft' = <<formStartEditing(component, task[1])>>
    /\ UNCHANGED <<component, task, saves, mainVars, timeVars, exportVars, optimizerVars>>

\* onChange of the start or end time field
FormTypeTime ==
    /\ editDraft # <<>>
    /\ \E field \in {"startTime", "endTime"}, t \in FormTexts(component) :
          /\ editDraft[1][field] # t
          /\ editDraft' = <<[editDraft[1] EXCEPT ![field] = t]>>
    /\ UNCHANGED <<component, task, saves, mainVars, timeVars, exportVars, optimizerVars>>

\* onChange of the title field
FormTypeTitle ==
    /\ editDraft # <<>>
    /\ \E title \in Titles :
          /\ editDraft[1].title # title
          /\ editDraft' = <<[editDraft[1] EXCEPT !.title = title]>>
    /\ UNCHANGED <<component, task, saves, mainVars, timeVars, exportVars, optimizerVars>>

\* onChange of the duration field of PlannerInterface
FormTypeDuration ==
    /\ editDraft # <<>>
    /\ component = "PlannerInterface"
    /\ \E n \in FormDurations :
          /\ editDraft[1].duration # <<n>>
          /\ editDraft' = <<[editDraft[1] EXCEPT !.duration = <<n>>]>>
    /\ UNCHANGED <<component, task, saves, mainVars, timeVars, exportVars, optimizerVars>>

\* a click on the Save button
FormSave ==
    /\ editDraft # <<>>
    /\ saves < MaxSaves
    /\ saves' = saves + 1
    /\ LET st == [task |-> task[1], editDraft |-> editDraft]
           saved == IF component = "ScheduleTimeline" THEN timelineSaveEditing(st)
                    ELSE plannerSaveEditing(st)
       IN  /\ task' = <<saved.task>>
           /\ editDraft' = saved.editDraft
    /\ UNCHANGED <<component, mainVars, timeVars, exportVars, optimizerVars>>

\* a click on the Cancel button: cancelEditing
FormCancel ==
    /\ editDraft # <<>>
    /\ editDraft' = <<>>
    /\ UNCHANGED <<component, task, saves, mainVars, timeVars, exportVars, optimizerVars>>

NextForm ==
    \/ FormStartEditing
    \/ FormTypeTime
    \/ FormTypeTitle
    \/ FormTypeDuration
    \/ FormSave
    \/ FormCancel

SpecForm == InitForm /\ [][NextForm]_vars

WellFormedText(t) == t.text = "HH:MM" /\ t.h \in 0..23 /\ t.m \in 0..59

\* a draft whose start or end is malformed or non-numeric, or whose end is not
\* after its start
InvalidDraft(d) ==
    \/ ~WellFormedText(d.startTime)
    \/ ~WellFormedText(d.endTime)
    \/ d.endTime.h * 60 + d.endTime.m <= d.startTime.h * 60 + d.startTime.m

\* C14: when the draft submitted has a malformed or non-numeric start or end, or
\* an end that is not after its start, no update is written: the block keeps its
\* title, startTime, endTime, duration and type.
InvalidEditRejected ==
    [][(editDraft # <<>> /\ InvalidDraft(editDraft[1])) => task' = task]_vars

----------------------------------------------------------------------------
(* Calendar export: exportToICS of ModernPlannerInterface and downloadIcs of *)
(* PlannerInterface. The file is modelled by its list of lines, a line by    *)
(* its name and its value.                                                   *)

Line(name, value) == [name |-> name, value |-> value]

\* toUtc: the local time of today as a UTC stamp; zone is getTimezoneOffset().
\* The stamp is modelled by its distance in days from today and its time.
toUtc(time, zone) ==
    LET total == time.h * 60 + time.m + zone
    IN  [day |-> total \div 1440, h |-> (total % 1440) \div 60, m |-> total % 60]

\* `${dateStr}-${block.id}@dailyflow`
uidOfId(dateStr, block, i) == [date |-> dateStr, index |-> block.id]

\* `${dateStr}-${i}@dailyflow`
uidOf(dateStr, block, i) == [date |-> dateStr, index |-> i]

\* the lines pushed for the block at index i (from 0)
eventLines(by, dateStr, zone, block, i) ==
    <<Line("BEGIN", "VEVENT"),
      Line("UID", uidOf(dateStr, block, i)),
      Line("DTSTAMP", toUtc(block.startTime, zone)),
      Line("DTSTART", toUtc(block.startTime, zone)),
      Line("DTEND", toUtc(block.endTime, zone)),
      Line("SUMMARY", block.title),
      Line("DESCRIPTION", IF by = "exportToICS" THEN <<block.type, "Daily Flow Activity">>
                          ELSE <<block.type>>),
      Line("END", "VEVENT")>>

RECURSIVE allEventLines(_, _, _, _, _)
\* blocks.forEach((block, i) => ...), from index i on
allEventLines(by, dateStr, zone, blocks, i) ==
    IF i >= Len(blocks) THEN <<>>
    ELSE eventLines(by, dateStr, zone, blocks[i + 1], i)
             \o allEventLines(by, dateStr, zone, blocks, i + 1)

\* the lines joined into the file; <<>> when the function returns at once
icsLines(by, input) ==
    IF input.schedule = <<>> \/ Len(input.schedule[1]) = 0 THEN <<>>
    ELSE <<Line("BEGIN", "VCALENDAR"),
           Line("VERSION", "2.0"),
           Line("PRODID", IF by = "exportToICS" THEN "-//PlanLingo//Modern Planner//EN"
                          ELSE "-//Daily Flow//Planner//EN")>>
         \o allEventLines(by, input.date, input.zone, input.schedule[1], 0)
         \o <<Line("END", "VCALENDAR")>>

MaxExportBlocks == 3

\* blocks as a schedule holds them after edits: ids are distinct, not positions
ExportBlocks ==
    {[id |-> 1, title |-> "Work", startTime |-> HHMM(9, 0), endTime |-> HHMM(17, 0),
      type |-> "work"],
     [id |-> 3, title |-> "Lunch Break", startTime |-> HHMM(12, 0), endTime |-> HHMM(13, 0),
      type |-> "meal"],
     [id |-> 4, title |-> "Work", startTime |-> HHMM(13, 0), endTime |-> HHMM(17, 0),
      type |-> "work"],
     [id |-> 7, title |-> "Sleep", startTime |-> HHMM(23, 0), endTime |-> HHMM(6, 0),
      type |-> "sleep"]}

ExportLists ==
    {bs \in BoundedSeq(ExportBlocks, MaxExportBlocks) :
        \A i, j \in 1..Len(bs) : bs[i].id = bs[j].id => i = j}

\* today's date as the digits YYYYMMDD
ExportDates == {20261102, 20261231}

\* getTimezoneOffset(): UTC, UTC+5:30, UTC-8
ExportZones == {0, 0 - 330, 480}

InitExport ==
    /\ exportInput \in [date : ExportDates, zone : ExportZones,
                        schedule : {<<>>} \cup {<<bs>> : bs \in ExportLists}]
    /\ icsFile = [done |-> FALSE]
    /\ RepairIdle
    /\ LayoutIdle
    /\ ScoreIdle
    /\ PlannerIdle
    /\ TimeIdle
    /\ FormIdle
    /\ OptimizerIdle

\* the Export button of ModernPlannerInterface
exportToICS ==
    /\ ~icsFile.done
    /\ icsFile' = [done |-> TRUE, by |-> "exportToICS",
                   lines |-> icsLines("exportToICS", exportInput)]
    /\ UNCHANGED <<exportInput, mainVars, timeVars, formVars, optimizerVars>>

\* the export button of PlannerInterface
downloadIcs ==
    /\ ~icsFile.done
    /\ icsFile' = [done |-> TRUE, by |-> "downloadIcs",
                   lines |-> icsLines("downloadIcs", exportInput)]
    /\ UNCHANGED <<exportInput, mainVars, timeVars, formVars, optimizerVars>>

NextExport == exportToICS \/ downloadIcs

SpecExport == InitExport /\ [][NextExport]_vars

isLine(l, name, value) == l.name = name /\ l.value = value

\* the positions in lines of the lines name:value
linesAt(lines, name, value) == {i \in 1..Len(lines) : isLine(lines[i], name, value)}

\* the k-th smallest element of a set of numbers
kth(S, k) == CHOOSE x \in S : Cardinality({y \in S : y < x}) = k - 1

exportedBlocks == IF exportInput.schedule = <<>> THEN <<>> ELSE exportInput.schedule[1]

\* the values of the lines called name between positions a and b
valuesBetween(lines, name, a, b) ==
    {lines[i].value : i \in {j \in (a + 1)..(b - 1) : lines[j].name = name}}

\* C15: the export of a non-empty block list is one BEGIN:VCALENDAR followed by
\* VERSION and PRODID, then one BEGIN:VEVENT .. END:VEVENT per block in block
\* order, then END:VCALENDAR; the k-th event's UID is made of the date and the
\* position k-1 only, so the UIDs are pairwise distinct; an empty or missing
\* schedule emits nothing.
ExportStructure ==
    icsFile.done =>
        LET lines  == icsFile.lines
            blocks == exportedBlocks
            n      == Len(blocks)
            begins == linesAt(lines, "BEGIN", "VEVENT")
            ends   == linesAt(lines, "END", "VEVENT")
        IN  IF n = 0 THEN lines = <<>>
            ELSE /\ linesAt(lines, "BEGIN", "VCALENDAR") = {1}
                 /\ lines[2].name = "VERSION"
                 /\ lines[3].name = "PRODID"
                 /\ linesAt(lines, "END", "VCALENDAR") = {Len(lines)}
                 /\ Cardinality(begins) = n
                 /\ Cardinality(ends) = n
                 /\ \A k \in 1..n :
                       /\ 3 < kth(begins, k)
                       /\ kth(begins, k) < kth(ends, k)
                       /\ k < n => kth(ends, k) < kth(begins, k + 1)
                       /\ valuesBetween(lines, "UID", kth(begins, k), kth(ends, k))
                              = {[date |-> exportInput.date, index |-> k - 1]}
                       /\ valuesBetween(lines, "SUMMARY", kth(begins, k), kth(ends, k))
                              = {blocks[k].title}
                 /\ Cardinality({lines[i].value : i \in {j \in 1..Len(lines) :
                                                          lines[j].name = "UID"}}) = n

\* three blocks whose ids are not their positions were exported
ThreeBlocksExported ==
    /\ icsFile.done
    /\ icsFile.by = "exportToICS"
    /\ Len(exportedBlocks) = 3
    /\ exportedBlocks[1].id = 7
    /\ Len(icsFile.lines) > 0

----------------------------------------------------------------------------
(* The repairer on candidates with equal starts and with short durations *)

\* the candidates that start at minute t, in input order
startingAt(t) == SelectSeq(candidates, LAMBDA c : timeToMinutes(c.startTime) = t)

\* the number of candidates that start before minute t
startingBefore(t) ==
    Cardinality({i \in 1..Len(candidates) : timeToMinutes(candidates[i].startTime) < t})

\* C17: candidates with the same startTime come out in input order, each after
\* the first moved to start exactly at the endTime of the one before it; the
\* first keeps its start unless its predecessor pushed it. Also when an end
\* passes 24:00.
TieBreakByInputOrder ==
    Len(repaired) >= 1 =>
        \A t \in {timeToMinutes(candidates[i].startTime) : i \in 1..Len(candidates)} :
            LET out == repaired[1].blocks
                a   == startingBefore(t)
            IN  \A r \in 1..Len(startingAt(t)) :
                    /\ out[a + r].duration = Max(startingAt(t)[r].duration, 15)
                    /\ r > 1 => out[a + r].startTime = out[a + r - 1].endTime
                    /\ r = 1 => \/ timeToMinutes(out[a + r].startTime) = t
                                \/ a > 0 /\ out[a + r].startTime = out[a].endTime

\* C18: whatever a candidate's duration and endTime, the repaired block has a
\* duration of at least 15 minutes and its endTime is its startTime plus that
\* duration, on the 24-hour face.
MinimumDuration ==
    \A r \in 1..Len(repaired) :
        \A i \in 1..Len(repaired[r].blocks) :
            LET b == repaired[r].blocks[i]
            IN  /\ b.duration >= 15
                /\ timeToMinutes(b.endTime) = (timeToMinutes(b.startTime) + b.duration) % 1440
                /\ b.endTime # b.startTime

\* a candidate of duration zero whose endTime lay before its startTime, and a
\* candidate of negative duration, were repaired
ShortCandidatesFixed ==
    /\ Len(repaired) >= 1
    /\ \E i, j \in 1..Len(candidates) :
          /\ candidates[i] = BackwardCandidate
          /\ candidates[j].duration < 0

----------------------------------------------------------------------------
(* Pointer moves of a drag and of a resize *)

\* the block of the gesture as the schedule holds it after the step
movedBlock == findBlock(scheduleData'[1].blocks, gesture[1].blockId)[1]

\* C19: after every pointer move of a drag, the block's startTime is on the
\* 5-minute grid and within [0, 1440 - duration], and endTime - startTime is the
\* duration the block had when the drag began.
DragMoveKeepsBlockInDay ==
    [][(MouseMove /\ gesture[1].kind = "drag") =>
          LET duration == gesture[1].block.duration
              start    == timeToMinutes(movedBlock.startTime)
          IN  /\ start % SNAP_MINUTES = 0
              /\ 0 <= start
              /\ start <= 1440 - duration
              /\ (timeToMinutes(movedBlock.endTime) - start) % 1440 = duration % 1440]_vars

\* C20: after every pointer move of a resize, the block's startTime is unchanged
\* and its end, in minutes with 24:00 as 1440, is between startTime + 15 and 1440.
ResizeMoveKeepsBlockInDay ==
    [][(MouseMove /\ gesture[1].kind = "resize") =>
          LET start == timeToMinutes(gesture[1].block.startTime)
              end   == IF timeToMinutes(movedBlock.endTime) = 0 THEN 1440
                       ELSE timeToMinutes(movedBlock.endTime)
          IN  /\ movedBlock.startTime = gesture[1].block.startTime
              /\ WellFormedTime(movedBlock.endTime)
              /\ start + 15 <= end
              /\ end <= 1440]_vars

----------------------------------------------------------------------------
(* Key presses on a focused block *)

\* a key press on the i-th block of the timeline whose event.key is key
keyPressed(key, i) ==
    /\ BlockKeyDown
    /\ i \in targets(scheduleData)
    /\ applyEditor(handleKeyDown(editorState, scheduleData, key,
                                 scheduleData[1].blocks[i].id))

\* the end of a block in minutes of the day, the string 00:00 read as 24:00
endInDay(block) ==
    IF timeToMinutes(block.endTime) = 0 THEN 1440 ELSE timeToMinutes(block.endTime)

\* a block with well-formed times that ends after its start within the day
insideDay(block) ==
    /\ WellFormedTime(block.startTime)
    /\ WellFormedTime(block.endTime)
    /\ timeToMinutes(block.startTime) < endInDay(block)

\* the i-th block as the schedule holds it after the step
blockAfter(i) == findBlock(scheduleData'[1].blocks, scheduleData[1].blocks[i].id)[1]

ArrowKeys == {"ArrowUp", "ArrowDown"}

\* C21: an ArrowUp or ArrowDown press on a block that lies inside the day, a
\* block ending at 24:00 included, shifts its startTime and endTime by the same
\* amount of at most 15 minutes: the block still lies inside the day and its
\* length is unchanged.
KeyMoveKeepsBlockInDay ==
    [][\A key \in ArrowKeys, i \in 1..MaxTargets :
          (keyPressed(key, i) /\ insideDay(scheduleData[1].blocks[i])) =>
             LET before == scheduleData[1].blocks[i]
                 shift  == timeToMinutes(blockAfter(i).startTime)
                              - timeToMinutes(before.startTime)
             IN  /\ insideDay(blockAfter(i))
                 /\ endInDay(blockAfter(i)) - endInDay(before) = shift
                 /\ shift \in (0 - 15)..15]_vars

\* C22: an ArrowUp or ArrowDown press with Shift held (event.key is then
\* ArrowUp or ArrowDown) on a block inside the day leaves its startTime unchanged
\* and moves its end by at most 15 minutes, to a value between startTime + 15
\* and 1440.
ShiftArrowResizesEnd ==
    [][\A key \in ArrowKeys, i \in 1..MaxTargets :
          (keyPressed(key, i) /\ insideDay(scheduleData[1].blocks[i])) =>
             LET before == scheduleData[1].blocks[i]
                 change == endInDay(blockAfter(i)) - endInDay(before)
             IN  /\ blockAfter(i).startTime = before.startTime
                 /\ WellFormedTime(blockAfter(i).endTime)
                 /\ change \in (0 - 15)..15
                 /\ timeToMinutes(before.startTime) + 15 <= endInDay(blockAfter(i))
                 /\ endInDay(blockAfter(i)) <= 1440]_vars

----------------------------------------------------------------------------
(* Title editing *)

\* a double click on the i-th block of the timeline
doubleClicked(i) ==
    /\ StartEditing
    /\ i \in targets(scheduleData)
    /\ applyEditor(startEditing(editorState, scheduleData[1].blocks[i].id))

\* a key press in the title input whose event.key is key, the input holding value
titleKeyPressed(key, value) ==
    /\ TitleKeyDown
    /\ applyEditor(titleInputKeyDown(editorState, scheduleData, key, value, editingBlock))

\* the title input losing the focus while it holds value
titleBlurred(value) ==
    /\ TitleBlur
    /\ applyEditor(stopEditing(handleBlockUpdate(editorState, scheduleData,
                                                 editingBlock, [title |-> value])))

\* the block being edited as the schedule holds it after the step
editedAfter == findBlock(scheduleData'[1].blocks, editingBlock)

\* C23: a double click or Enter on a block puts that block in title editing;
\* Enter in the title input, or its blur, writes the typed title to the block and
\* leaves no block in title editing; Escape leaves no block in title editing and
\* the schedule unchanged.
TitleEditTransitions ==
    [][/\ \A i \in 1..MaxTargets :
             (doubleClicked(i) \/ keyPressed("Enter", i)) =>
                 editingBlock' = scheduleData[1].blocks[i].id
       /\ \A value \in Titles :
             (titleKeyPressed("Enter", value) \/ titleBlurred(value)) =>
                 /\ editingBlock' = 0
                 /\ editedAfter # <<>>
                 /\ editedAfter[1].title = value
       /\ \A value \in Titles :
             titleKeyPressed("Escape", value) =>
                 /\ editingBlock' = 0
                 /\ scheduleData' = scheduleData]_vars

----------------------------------------------------------------------------
(* The optimization score as a sum of penalties *)

penalty(applies, points) == IF applies THEN points ELSE 0

hasBlockOf(blocks, type) == \E i \in 1..Len(blocks) : blocks[i].type = type

\* some pair of consecutive blocks lies more than 180 minutes apart
hasLongGap(blocks) ==
    \E i \in 1..(Len(blocks) - 1) :
        timeToMinutes(blocks[i + 1].startTime) > timeToMinutes(blocks[i].endTime) + 180

\* some block starts before the block listed before it has ended
hasOverlap(blocks) ==
    \E i \in 1..(Len(blocks) - 1) :
        timeToMinutes(blocks[i + 1].startTime) < timeToMinutes(blocks[i].endTime)

\* the sum of the penalties, the totals in minutes
penalties(blocks) ==
    LET work == totalOf(blocks, {"work"})
        sleep == totalOf(blocks, {"sleep"})
    IN  penalty(work > 540, 15)
        + penalty(work < 360, 10)
        + penalty(totalOf(blocks, {"personal", "wellness"}) < 120, 15)
        + penalty(sleep \notin 420..540, 20)
        + penalty(totalOf(blocks, {"exercise"}) < 30, 20)
        + penalty(~hasBlockOf(blocks, "meal"), 10)
        + penalty(work > 360 /\ ~hasBlockOf(blocks, "break"), 10)
        + penalty(~hasBlockOf(blocks, "wellness"), 5)
        + penalty(hasLongGap(blocks) \/ hasOverlap(blocks), 5)

\* C24: the optimizationScore calculateOptimizationScore gives a block list is
\* max(0, min(100, 100 - P)), P the sum of the fixed penalties: 15 for work over
\* 9 h, 10 for work under 6 h, 15 for personal time under 2 h, 20 for sleep
\* outside 7 to 9 h, 20 for exercise under 30 min, 10 for no meal, 10 for work
\* over 6 h without a break, 5 for no wellness block, 5 for a consecutive pair
\* more than 180 minutes apart or overlapping.
ScoreIsPenaltySum ==
    (scored.done /\ scored.by # "createFallbackSchedule") =>
        LET P == penalties(scored.schedule.blocks)
        IN  scored.schedule.optimizationScore =
               (IF 100 - P < 0 THEN 0 ELSE IF 100 - P > 100 THEN 100 ELSE 100 - P)

\* a list whose only structural fault is an overlap of two consecutive blocks has
\* been scored, and its score is above the lower clamp
OverlapPenalised ==
    /\ scored.done
    /\ scored.by = "direct"
    /\ hasOverlap(scoreBlocks)
    /\ ~hasLongGap(scoreBlocks)
    /\ hasBlockOf(scoreBlocks, "meal")
    /\ scored.schedule.optimizationScore = 100 - penalties(scoreBlocks)
    /\ scored.schedule.optimizationScore > 0

----------------------------------------------------------------------------
(* The optimizer view (ScheduleOptimizer) while it is mounted: its blocks   *)
(* prop, the debounce timer of its effect and the optimizeSchedule calls    *)
(* its runs await                                                           *)

MaxChanges == 2

\* the block lists the planner hands to the optimizer
OptimizerBlockLists ==
    {<<Candidate(540, 600, "work")>>,
     <<Candidate(540, 480, "work"), Candidate(1020, 15, "break")>>,
     <<Candidate(540, 480, "work"), Candidate(1020, 15, "break"),
       Candidate(1080, 30, "exercise")>>}

\* the cleanup of the effect: clearTimeout of the timer the effect set
clearTimer(timers) ==
    IF timers = <<>> THEN <<>> ELSE SubSeq(timers, 1, Len(timers) - 1)

\* the effect on [blocks]: a 1000 ms timer that calls runOptimization of the
\* render the effect belongs to
setTimer(timers, blocks) ==
    IF Len(blocks) > 0 THEN Append(timers, [blocks |-> blocks]) ELSE timers

\* all but the i-th member of a sequence
without(seq, i) == SubSeq(seq, 1, i - 1) \o SubSeq(seq, i + 1, Len(seq))

\* what setOptimizationData receives: the score and the optimizedSchedule of the
\* result (its suggestion and improvement texts are left out)
resultFor(blocks, score) == [score |-> score, optimizedSchedule |-> blocks]

\* the state after the component is mounted and its effect has run
InitOptimizer ==
    /\ optimizerBlocks \in OptimizerBlockLists \cup {<<>>}
    /\ debounceTimers = setTimer(<<>>, optimizerBlocks)
    /\ isAnalyzing = FALSE
    /\ optimizationData = <<>>
    /\ optimizeCalls = <<>>
    /\ timerRuns = 0
    /\ applying = <<>>
    /\ changes = 0
    /\ configured \in BOOLEAN
    /\ naturalLanguageInput = NoText
    /\ isProcessing = FALSE
    /\ error = <<>>
    /\ currentView = "optimizer"
    /\ scheduleData = <<>>
    /\ hasUnsavedChanges = FALSE
    /\ request = IdleRequest
    /\ parsePromise = NoPromise
    /\ editingBlock = 0
    /\ gesture = <<>>
    /\ edits = 0
    /\ RepairIdle
    /\ LayoutIdle
    /\ ScoreIdle
    /\ TimeIdle
    /\ FormIdle
    /\ ExportIdle

optimizerRest == <<mainVars, timeVars, formVars, exportVars>>

\* runOptimization of a render whose blocks prop is blocks, up to its await:
\* without an API key optimizeSchedule throws at once and the catch block
\* installs the local result
runOptimization(blocks) ==
    IF ~configured
    THEN /\ optimizationData' = <<resultFor(blocks, 65)>>
         /\ isAnalyzing' = FALSE
         /\ UNCHANGED optimizeCalls
    ELSE /\ isAnalyzing' = TRUE
         /\ optimizeCalls' = Append(optimizeCalls, [blocks |-> blocks])
         /\ UNCHANGED optimizationData

\* a click on Apply Changes (applySelectedOptimizations up to its await): the
\* button is rendered when a run has given suggestions and isAnalyzing is false,
\* and is disabled while isApplyingChanges
applySelectedOptimizations ==
    /\ changes < MaxChanges
    /\ optimizationData # <<>>
    /\ ~isAnalyzing
    /\ applying = <<>>
    /\ \E optimizedBlocks \in OptimizerBlockLists : applying' = <<optimizedBlocks>>
    /\ UNCHANGED <<optimizerBlocks, debounceTimers, isAnalyzing, optimizationData,
                   optimizeCalls, timerRuns, changes, optimizerRest>>

\* 800 ms later onApplyOptimization (handleApplyOptimization) replaces the
\* planner's blocks; the optimizer is rendered with the new list and its effect
\* runs again, after the cleanup of the last one
handleApplyOptimization ==
    /\ applying # <<>>
    /\ optimizerBlocks' = applying[1]
    /\ debounceTimers' = setTimer(clearTimer(debounceTimers), applying[1])
    /\ applying' = <<>>
    /\ timerRuns' = 0
    /\ changes' = changes + 1
    /\ UNCHANGED <<isAnalyzing, optimizationData, optimizeCalls, optimizerRest>>

\* a debounce timer fires
TimerFires ==
    /\ \E i \in 1..Len(debounceTimers) :
          /\ debounceTimers' = without(debounceTimers, i)
          /\ runOptimization(debounceTimers[i].blocks)
    /\ timerRuns' = timerRuns + 1
    /\ UNCHANGED <<optimizerBlocks, applying, changes, optimizerRest>>

\* a click on the Optimize button, disabled while isAnalyzing; runOptimization
\* returns at once when there are no blocks
ClickOptimize ==
    /\ ~isAnalyzing
    /\ Len(optimizerBlocks) > 0
    /\ runOptimization(optimizerBlocks)
    /\ UNCHANGED <<optimizerBlocks, debounceTimers, timerRuns, applying, changes,
                   optimizerRest>>

\* an optimizeSchedule call resolves, with the service's answer (score 75) or,
\* when generateText failed, with its own fallback (score 60)
OptimizeResolves ==
    /\ \E i \in 1..Len(optimizeCalls), score \in {75, 60} :
          /\ optimizationData' = <<resultFor(optimizeCalls[i].blocks, score)>>
          /\ optimizeCalls' = without(optimizeCalls, i)
    /\ isAnalyzing' = FALSE
    /\ UNCHANGED <<optimizerBlocks, debounceTimers, timerRuns, applying, changes,
                   optimizerRest>>

NextOptimizer ==
    \/ applySelectedOptimizations
    \/ handleApplyOptimization
    \/ TimerFires
    \/ ClickOptimize
    \/ OptimizeResolves

SpecOptimizer == InitOptimizer /\ [][NextOptimizer]_vars

\* the blocks of the run the step started
startedOn ==
    IF configured THEN optimizeCalls'[Len(optimizeCalls')].blocks
    ELSE optimizationData'[1].optimizedSchedule

\* every change of the block list leaves one pending timer, set for the new list
ChangeRestartsTimer ==
    (changes' = changes + 1) => debounceTimers' = <<[blocks |-> optimizerBlocks']>>

\* the timers start one run after the last change of the list, on that list
OneRunOnLatest ==
    /\ (timerRuns' = timerRuns + 1) =>
          /\ timerRuns = 0
          /\ debounceTimers' = <<>>
          /\ startedOn = optimizerBlocks
    /\ (debounceTimers = <<>> /\ Len(optimizerBlocks) > 0) => timerRuns = 1

\* once no timer and no call is pending, the result shown is that of the list
ShownForLatest ==
    (debounceTimers' = <<>> /\ optimizeCalls' = <<>> /\ Len(optimizerBlocks') > 0) =>
        /\ optimizationData' # <<>>
        /\ optimizationData'[1].optimizedSchedule = optimizerBlocks'

\* C25: every change of the block list cancels the pending re-analysis timer and
\* starts a new one; the timers start exactly one run after the last change of a
\* burst, on the latest block list; and the result displayed once nothing is
\* pending is the one computed for the latest block list.
DebouncedReanalysis ==
    [][ChangeRestartsTimer /\ OneRunOnLatest /\ ShownForLatest]_vars

----------------------------------------------------------------------------
(* The lanes of an overlap group *)

\* the events of group G whose interval [start, end) holds the instant t
eventsAt(events, G, t) == {j \in G : events[j].start <= t /\ t < events[j].end}

\* the largest number of events of G that overlap at one instant; the number
\* changes only where an event starts
maxOverlap(events, G) ==
    LET counts == {Cardinality(eventsAt(events, G, events[j].start)) : j \in G}
    IN  CHOOSE n \in counts : \A k \in counts : k <= n

\* C26: the laneCount of every layout event is the least number of lanes its
\* overlap group needs: the largest number of events of the group that overlap
\* at one instant.
MinimumLanes ==
    \A i \in 1..Len(layouted.events) :
        layouted.events[i].laneCount
            = maxOverlap(layouted.events, OverlapGroup(layouted.events, i))

----------------------------------------------------------------------------
(* Editor events interleaved with the pointer moves of a gesture *)

idsOf(blocks) == {blocks[i].id : i \in 1..Len(blocks)}

\* the ids of the blocks that the step changed or removed
touched ==
    {id \in idsOf(scheduleData[1].blocks) :
        findBlock(scheduleData'[1].blocks, id) # findBlock(scheduleData[1].blocks, id)}

\* C27: every editor event acts on the block list as it is when the event is
\* handled: it adds no block (a deleted block does not reappear), it changes or
\* removes at most one block, and a pointer move of a drag or resize changes
\* nothing but startTime and endTime of the block of the gesture.
NoUndoneEdits ==
    [][(edits' = edits + 1 /\ scheduleData # <<>> /\ scheduleData' # <<>>) =>
          /\ idsOf(scheduleData'[1].blocks) \subseteq idsOf(scheduleData[1].blocks)
          /\ Cardinality(touched) <= 1
          /\ MouseMove =>
                /\ touched \subseteq {gesture[1].blockId}
                /\ \A id \in touched :
                      \A f \in {"id", "title", "duration", "type"} :
                          findBlock(scheduleData'[1].blocks, id)[1][f]
                             = findBlock(scheduleData[1].blocks, id)[1][f]]_vars

----------------------------------------------------------------------------
(* Keys pressed in the title input *)

\* the keys of the claim that the model presses (Delete and Space take the
\* cases of Backspace and Enter in handleKeyDown)
TitleInputKeys == {"Backspace", "ArrowUp", "ArrowDown", "Enter"}

\* C28: a key pressed in the title input of the block being edited never
\* deletes that block and never changes its startTime or endTime.
TitleKeysKeepBlock ==
    [][\A key \in TitleInputKeys, value \in Titles :
          titleKeyPressed(key, value) =>
             /\ editedAfter # <<>>
             /\ editedAfter[1].startTime
                   = findBlock(scheduleData[1].blocks, editingBlock)[1].startTime
             /\ editedAfter[1].endTime
                   = findBlock(scheduleData[1].blocks, editingBlock)[1].endTime]_vars

----------------------------------------------------------------------------
(* The time strings of the blocks under the editor *)

\* C29: after generation and after any sequence of drag moves, resize moves and
\* key presses, a move or resize that puts a block's end at 24:00 included,
\* startTime and endTime of every block are well-formed HH:MM strings from 00:00
\* to 23:59.
TimesStayWellFormed ==
    scheduleData # <<>> =>
        \A i \in 1..Len(scheduleData[1].blocks) :
            /\ WellFormedTime(scheduleData[1].blocks[i].startTime)
            /\ WellFormedTime(scheduleData[1].blocks[i].endTime)

----------------------------------------------------------------------------
(* The time stamps of the exported events *)

\* a stamp in minutes from 00:00 UTC of today
stampMinutes(stamp) == stamp.day * 1440 + stamp.h * 60 + stamp.m

\* C30: in every exported file the DTEND stamp of an event is not earlier than
\* its DTSTART stamp, also for a block that crosses midnight, whose endTime is
\* numerically less than its startTime.
ExportedEndNotBeforeStart ==
    icsFile.done =>
        \A i \in 1..Len(icsFile.lines) :
            icsFile.lines[i].name = "DTSTART" =>
                /\ icsFile.lines[i + 1].name = "DTEND"
                /\ stampMinutes(icsFile.lines[i + 1].value)
                      >= stampMinutes(icsFile.lines[i].value)

====
